---------------------------- MODULE Spec2Model ----------------------------
(***************************************************************************)
(* A model of src/main.py: wallets, signed transactions, proof-of-work     *)
(* blocks, the Blockchain ledger and the pending Pool.                     *)
(*                                                                         *)
(* Modelling conventions                                                   *)
(*  - Python's list objects live in heap: a list is named by its index    *)
(*    there, and a variable or field that holds a list holds its name, so  *)
(*    two holders of one list see each other's appends, as in Python.      *)
(*    A Transaction object is a record; its field id is the object's       *)
(*    identity (the count of Transactions constructed before it, plus 1).  *)
(*  - A wallet is named by a number 1, 2, 3; its public key, and the       *)
(*    PEM text of that key, are named by the same number (the PEM export   *)
(*    is injective).  0 stands for None.                                   *)
(*  - Money is counted in units of 0.025 coin (10 coin = 400 units), and   *)
(*    the amounts fed to the model are multiples of 200 units, for which   *)
(*    0.005 * amount is a whole number of units and round(.., 8) changes   *)
(*    nothing.  Float arithmetic is taken to be exact.                     *)
(*  - SHA-256 is an ideal hash: a digest determines the text it was taken  *)
(*    of (no collisions), and the number of '0' characters it starts with  *)
(*    is a fixed pseudo-random function of that text.                      *)
(*  - ECDSA is an ideal signature: a signature verifies under a key and a  *)
(*    text exactly when it was made with that key's private half over the  *)
(*    same text.                                                           *)
(*  - time.time() is a clock that advances while a block is mined (the     *)
(*    proof of work is the slow step) and stands still otherwise.          *)
(***************************************************************************)
EXTENDS Integers, Sequences, FiniteSets, TLC

VARIABLES
    chain,      \* Blockchain.chain: the sequence of Block objects
    wallets,    \* Blockchain.wallets: PEM text -> Wallet
    balance,    \* Wallet.balance of every Wallet object
    heap,       \* the list objects allocated so far
    txvar,      \* the caller's Transaction variable (NoTx: none yet)
    ntx,        \* the number of Transaction objects constructed so far
    pool,       \* Pool.transactions: the name of the pool's current list
    held,       \* the caller's list variable (0: none yet)
    now,        \* the clock
    last,       \* the last call: its name, how it ended, what it returned
    applied,    \* history: the ids of the transactions whose balance update
                \* add_block applied, one entry for each time
    tamper,     \* history: the field changed behind the program's back
                \* (NoTamper: none)
    tasks,      \* the add_block calls started as tasks of the event loop
    mine        \* a Block whose mine_block loop is followed turn by turn
                \* (NoMine: none)

vars == <<chain, wallets, balance, heap, txvar, ntx, pool, held, now, last,
          applied, tamper, tasks, mine>>

\* ------------------------------------------------------------------ bounds
MaxChain == 3
MaxTxs == 2
MaxPool == 2
MaxLists == 3
MaxNonce == 33
MaxCalls == 2
MaxTasks == 2

\* ------------------------------------------------------- program constants
\* Blockchain.__init__'s defaults: difficulty 4, reward 50.0 coin
Difficulty == 4
Reward == 2000

\* Python's None
None == 0

\* The caller's Transaction variable before its first assignment.
NoTx == [id |-> 0]

\* No field was changed behind the program's back.
NoTamper == [block |-> -1]

\* No Block is followed through its mine_block loop.
NoMine == [pc |-> "none"]

\* main's wallets: Alice, Bob, Charlie
Wallets == {1, 2, 3}

\* The wallets the caller registers; the third stays outside the registry.
Registrable == {1, 2}

\* The wallets that mine: add_block is given any list of these.
Miners == {1, 2}

\* The Transaction(sender_wallet, recipient, amount) calls of the caller:
\* a transfer of 10 coin, of -5 coin and of 0 coin, and a transfer to oneself.
TxInputs == {<<1, 2, 400>>, <<1, 2, -200>>, <<1, 2, 0>>, <<2, 2, 400>>}

\* ------------------------------------------------------------------ Wallet
\* The PEM export of a wallet's public key.
PEM(key) == key

PublicKey(w) == w

\* Wallet.sign_transaction: an ECDSA signature by w's private key over data.
Sign(w, data) == <<PublicKey(w), data>>

\* A slip: the signature is compared with the text only, whoever signed it.
VerifySignatureAnyKey(w, data, signature) == signature[2] = data

\* Wallet.verify_signature: True when the signature verifies, False (the
\* except branch) when it does not.
VerifySignature(w, data, signature) == signature = <<PublicKey(w), data>>

\* ------------------------------------------------------------- Transaction
\* fee = round(0.005 * amount, 8)
Fee(amount) == (5 * amount) \div 1000

\* Transaction.to_dict: every field but the signature.
ToDict(tx) == <<PEM(tx.sender_public_key), PEM(tx.recipient), tx.amount, tx.fee, tx.timestamp>>

\* json.dumps(self.to_dict(), sort_keys=True): the text signed and verified.
SignedData(tx) == <<"json", ToDict(tx)>>

\* Transaction.__init__
NewTransaction(id, sender_wallet, recipient, amount, t) ==
    LET unsigned == [sender_public_key |-> PublicKey(sender_wallet),
                     recipient |-> recipient,
                     amount |-> amount,
                     fee |-> Fee(amount),
                     timestamp |-> t]
    IN  [id |-> id,
         sender_public_key |-> unsigned.sender_public_key,
         recipient |-> unsigned.recipient,
         amount |-> unsigned.amount,
         fee |-> unsigned.fee,
         timestamp |-> unsigned.timestamp,
         signature |-> Sign(sender_wallet, SignedData(unsigned))]

\* A slip: the signature is asked only whose it is, not over which text.
IsValidKeyOnly(tx, sender_wallet) == tx.signature[1] = PublicKey(sender_wallet)

\* Transaction.is_valid(sender_wallet), for a sender_wallet that is not None.
IsValid(tx, sender_wallet) == VerifySignature(sender_wallet, SignedData(tx), tx.signature)

\* ------------------------------------------------------------------- Block
\* The number of times 2 divides m, for m in 1..31; 5 for m = 0.
RECURSIVE TwoAdic(_)
TwoAdic(m) == IF m = 0 THEN 5 ELSE IF m % 2 = 1 THEN 0 ELSE 1 + TwoAdic(m \div 2)

\* The count of leading '0' characters of the SHA-256 hex digest of a block's
\* serialisation: a fixed function of the text, here a mix of its parts.
LeadingZeros(data) ==
    TwoAdic((3 * data[1] + 5 * data[2] + 7 * Len(data[3]) + 13 * data[4].lead
             + data[5] + 11 * data[6] + 9) % 32)

\* hashlib.sha256(text).hexdigest()
Sha256(data) == [lead |-> LeadingZeros(data), body |-> data]

\* The previous_hash "0" of the genesis block: a string that is no digest.
ZeroHash == [lead |-> 1, body |-> <<>>]

\* [tx.to_dict() for tx in self.transactions]
RECURSIVE Dicts(_)
Dicts(txs) == IF txs = <<>> THEN <<>> ELSE <<ToDict(Head(txs))>> \o Dicts(Tail(txs))

\* block_data of Block.calculate_hash, the transactions' dicts given.
BlockData(b, dicts) == <<b.index, b.timestamp, dicts, b.previous_hash, b.nonce, b.miner>>

CalculateHashOf(b, dicts) == Sha256(BlockData(b, dicts))

\* Block.calculate_hash on a block of the current state.
CalculateHash(b) == CalculateHashOf(b, Dicts(heap[b.transactions]))

\* A slip: one more '0' is asked for than the difficulty.
StartsWithLongerPrefix(h, difficulty) == h.lead > difficulty

\* hash.startswith("0" * difficulty)
StartsWithPrefix(h, difficulty) == h.lead >= difficulty

\* Block.__init__
NewBlock(index, transactions, previous_hash, difficulty, miner, t) ==
    [index |-> index, timestamp |-> t, transactions |-> transactions,
     previous_hash |-> previous_hash, nonce |-> 0, difficulty |-> difficulty,
     miner |-> miner, hash |-> ZeroHash]

\* Block.mine_block: the loop, entered with the block's current nonce.
RECURSIVE MineBlock(_, _)
MineBlock(b, dicts) ==
    LET h == CalculateHashOf(b, dicts)
    IN  IF StartsWithPrefix(h, b.difficulty)
        THEN [b EXCEPT !.hash = h]
        ELSE MineBlock([b EXCEPT !.nonce = b.nonce + 1, !.hash = h], dicts)

\* A slip: the nonce is never incremented.
NextNonceStuck(nonce) == nonce

\* self.nonce += 1
NextNonce(nonce) == nonce + 1

\* ------------------------------------------- mine_block, followed turn by turn
\* The Blocks followed: Block(index, [], previous_hash, difficulty, miner)
\* constructed at time t.
MineDifficulties == {0, 1, 4, 5, 6}

MineInputs ==
    {NewBlock(index, 1, previous_hash, difficulty, miner, t) :
        index \in {0, 1, 2}, previous_hash \in {ZeroHash, [lead |-> 5, body |-> <<>>]},
        difficulty \in MineDifficulties, miner \in {None, 1, 2}, t \in {0, 1, 2}}

InitMine ==
    /\ chain = <<>>
    /\ wallets = <<>>
    /\ balance = [w \in Wallets |-> 0]
    /\ heap = << <<>> >>
    /\ txvar = NoTx
    /\ ntx = 0
    /\ pool = 1
    /\ held = None
    /\ now = 0
    /\ last = [op |-> "construct", outcome |-> "ok", ret |-> "None"]
    /\ applied = <<>>
    /\ tamper = NoTamper
    /\ tasks = <<>>
    /\ \E b \in MineInputs :
          mine = [pc |-> "new", block |-> b, calls |-> 0, ret |-> ZeroHash, tried |-> <<>>]

\* A call of mine_block() on the Block, up to the head of its loop.
CallMineBlock ==
    /\ mine.pc \in {"new", "returned"}
    /\ mine.calls < MaxCalls
    /\ mine' = [mine EXCEPT !.pc = "loop", !.calls = @ + 1, !.tried = <<>>]
    /\ UNCHANGED <<chain, wallets, balance, heap, txvar, ntx, pool, held, now, last,
                   applied, tamper, tasks>>

\* One turn of the while loop: the hash is computed and stored; it is
\* returned if it starts with the prefix, and the nonce is incremented if
\* not.  tried is history: the nonces hashed in this call.
MineStep ==
    /\ mine.pc = "loop"
    /\ Len(mine.tried) <= MaxNonce
    /\ LET h == CalculateHash(mine.block)
           tried == Append(mine.tried, mine.block.nonce)
       IN  mine' = IF StartsWithPrefix(h, mine.block.difficulty)
                   THEN [mine EXCEPT !.pc = "returned", !.block.hash = h, !.ret = h,
                                     !.tried = tried]
                   ELSE [mine EXCEPT !.block.hash = h,
                                     !.block.nonce = NextNonce(@), !.tried = tried]
    /\ UNCHANGED <<chain, wallets, balance, heap, txvar, ntx, pool, held, now, last,
                   applied, tamper, tasks>>

NextMine == CallMineBlock \/ MineStep

\* A loop that was entered goes on: the interpreter runs it.
SpecMine == InitMine /\ [][NextMine]_vars /\ WF_vars(MineStep)

\* -------------------------------------------------------------- Blockchain
\* Blockchain.find_wallet_by_public_key: self.wallets.get(pem)
FindWalletByPublicKey(key) ==
    IF PEM(key) \in DOMAIN wallets THEN wallets[PEM(key)] ELSE None

Called(op, outcome, ret) == [op |-> op, outcome |-> outcome, ret |-> ret]

Init ==
    /\ chain = <<>>
    /\ wallets = <<>>
    /\ balance = [w \in Wallets |-> 0]
    /\ heap = << <<>> >>
    /\ txvar = NoTx
    /\ ntx = 0
    /\ pool = 1
    /\ held = None
    /\ now = 0
    /\ last = Called("construct", "ok", "None")
    /\ applied = <<>>
    /\ tamper = NoTamper
    /\ tasks = <<>>
    /\ mine = NoMine

\* Blockchain.initialize / create_genesis_block
Initialize ==
    /\ chain = <<>>
    /\ LET l == Len(heap) + 1
           genesis_block == NewBlock(0, l, ZeroHash, Difficulty, None, now)
       IN  /\ heap' = Append(heap, <<>>)
           /\ chain' = Append(chain, MineBlock(genesis_block, <<>>))
    /\ now' = now + 1
    /\ last' = Called("initialize", "ok", "None")
    /\ UNCHANGED <<tasks, mine, applied, tamper, wallets, balance, txvar, ntx, pool, held>>

\* Blockchain.register_wallet
RegisterWallet(w) ==
    /\ wallets' = (PEM(PublicKey(w)) :> w) @@ wallets
    /\ last' = Called("register_wallet", "ok", "None")
    /\ UNCHANGED <<tasks, mine, applied, tamper, chain, balance, heap, txvar, ntx, pool, held, now>>

\* The caller constructs a Transaction and keeps it in its variable.
CreateTransaction(sender_wallet, recipient, amount) ==
    /\ ntx < MaxTxs
    /\ txvar' = NewTransaction(ntx + 1, sender_wallet, recipient, amount, now)
    /\ ntx' = ntx + 1
    /\ last' = Called("Transaction", "ok", "None")
    /\ UNCHANGED <<tasks, mine, applied, tamper, chain, wallets, balance, heap, pool, held, now>>

\* A slip: >= for > in the test of the amount.
AdmissibleFromZero(tx, sender_balance) ==
    /\ tx.amount >= 0
    /\ tx.sender_public_key # tx.recipient
    /\ sender_balance >= tx.amount + tx.fee

\* The condition of Pool.add_transaction's two ifs.
Admissible(tx, sender_balance) ==
    /\ tx.amount > 0
    /\ tx.sender_public_key # tx.recipient
    /\ sender_balance >= tx.amount + tx.fee

\* Pool.add_transaction(transaction, sender_wallet): no return statement.
PoolAddTransaction(transaction, sender_wallet) ==
    /\ Len(heap[pool]) < MaxPool
    /\ heap' = IF Admissible(transaction, balance[sender_wallet])
               THEN [heap EXCEPT ![pool] = Append(@, transaction)]
               ELSE heap
    /\ last' = Called("add_transaction", "ok", "None")
    /\ UNCHANGED <<tasks, mine, applied, tamper, chain, wallets, balance, txvar, ntx, pool, held, now>>

\* Pool.get_transactions: returns self.transactions, the list itself.
PoolGetTransactions ==
    /\ held' = pool
    /\ last' = Called("get_transactions", "ok", "list")
    /\ UNCHANGED <<tasks, mine, applied, tamper, chain, wallets, balance, heap, txvar, ntx, pool, now>>

\* Pool.clear_transactions: self.transactions = [], a new list.
PoolClearTransactions ==
    /\ Len(heap) < MaxLists
    /\ heap' = Append(heap, <<>>)
    /\ pool' = Len(heap) + 1
    /\ last' = Called("clear_transactions", "ok", "None")
    /\ UNCHANGED <<tasks, mine, applied, tamper, chain, wallets, balance, txvar, ntx, held, now>>

\* A slip: a default miner is taken when the list is empty.
RandomChoiceWithDefault(miner_wallets) ==
    IF miner_wallets = {} THEN {1} ELSE miner_wallets

\* random.choice(miner_wallets): any element; None stands for the IndexError
\* it raises on an empty sequence.
RandomChoice(miner_wallets) == IF miner_wallets = {} THEN {None} ELSE miner_wallets

\* Line 134 (and 142) calls transaction.is_valid(wallet) with the wallet the
\* registry gives; a None wallet raises AttributeError.
RaisesAttributeError(txs) ==
    \E i \in 1..Len(txs) : FindWalletByPublicKey(txs[i].sender_public_key) = None

\* transaction.is_valid(self.find_wallet_by_public_key(transaction.sender_public_key))
\* where that wallet is not None.
IsValidInRegistry(tx) == IsValid(tx, FindWalletByPublicKey(tx.sender_public_key))

\* total_fees = sum(transaction.fee for transaction in transactions if ...)
RECURSIVE TotalFees(_)
TotalFees(txs) ==
    IF txs = <<>> THEN 0
    ELSE (IF IsValidInRegistry(Head(txs)) THEN Head(txs).fee ELSE 0)
         + TotalFees(Tail(txs))

\* miner.balance += self.reward + total_fees
MinerCredit(total_fees) == Reward + total_fees

\* A slip: the sender pays the amount and not the fee.
SenderDebitWithoutFee(tx) == tx.amount

\* sender_wallet.balance -= transaction.amount + transaction.fee
SenderDebit(tx) == tx.amount + tx.fee

\* A slip: the recipient is credited the fee too.
RecipientCreditWithFee(tx) == tx.amount + tx.fee

\* recipient_wallet.balance += transaction.amount
RecipientCredit(tx) == tx.amount

\* The body of the "Update balances" loop for one transaction.
UpdateBalances(tx, bal) ==
    IF IsValidInRegistry(tx)
    THEN LET sender_wallet == FindWalletByPublicKey(tx.sender_public_key)
             recipient_wallet == FindWalletByPublicKey(tx.recipient)
             debited == IF sender_wallet # None
                        THEN [bal EXCEPT ![sender_wallet] = @ - SenderDebit(tx)]
                        ELSE bal
         IN  IF recipient_wallet # None
             THEN [debited EXCEPT ![recipient_wallet] = @ + RecipientCredit(tx)]
             ELSE debited
    ELSE bal

\* for transaction in transactions: ...
RECURSIVE UpdateAll(_, _)
UpdateAll(txs, bal) ==
    IF txs = <<>> THEN bal
    ELSE UpdateAll(Tail(txs), UpdateBalances(Head(txs), bal))

\* A slip: the hash of the first block, self.chain[0].hash.
PreviousHashOfGenesis == chain[1].hash

\* The ids of the transactions of txs that pass the test of the update loop,
\* in order.
AppliedIds(txs) ==
    LET passing == SelectSeq(txs, IsValidInRegistry)
    IN  [i \in 1..Len(passing) |-> passing[i].id]

\* previous_hash = self.chain[-1].hash
PreviousHash == chain[Len(chain)].hash

\* Block(len(self.chain), ...)
NewBlockIndex == Len(chain)

Unchanged(op, outcome) ==
    /\ last' = Called(op, outcome, "None")
    /\ UNCHANGED <<tasks, mine, applied, tamper, chain, wallets, balance, heap, txvar, ntx, pool, held, now>>

\* Blockchain.add_block(transactions, miner_wallets)
AddBlock(transactions, miner_wallets) ==
    /\ Len(chain) < MaxChain
    /\ IF chain = <<>>
       THEN Unchanged("add_block", "IndexError")
       ELSE \E miner \in RandomChoice(miner_wallets) :
            IF miner = None
            THEN Unchanged("add_block", "IndexError")
            ELSE IF RaisesAttributeError(heap[transactions])
            THEN Unchanged("add_block", "AttributeError")
            ELSE LET txs == heap[transactions]
                     total_fees == TotalFees(txs)
                     new_block == NewBlock(NewBlockIndex, transactions, PreviousHash,
                                           Difficulty, PublicKey(miner), now)
                 IN  /\ chain' = Append(chain, MineBlock(new_block, Dicts(txs)))
                     /\ balance' = UpdateAll(txs, [balance EXCEPT ![miner] = @ + MinerCredit(total_fees)])
                     /\ now' = now + 1
                     /\ last' = Called("add_block", "ok", "None")
                     /\ applied' = applied \o AppliedIds(txs)
                     /\ UNCHANGED <<tasks, mine, tamper, wallets, heap, txvar, ntx, pool, held>>

Next ==
    \/ Initialize
    \/ \E w \in Registrable : RegisterWallet(w)
    \/ \E i \in TxInputs : CreateTransaction(i[1], PublicKey(i[2]), i[3])
    \/ \E w \in Wallets : txvar # NoTx /\ PoolAddTransaction(txvar, w)
    \/ PoolGetTransactions
    \/ PoolClearTransactions
    \/ \E ms \in SUBSET Miners : held # None /\ AddBlock(held, ms)

Spec == Init /\ [][Next]_vars

\* Blockchain.is_chain_valid: the loop from block i (counted from 0) on.
RECURSIVE IsChainValidFrom(_)
IsChainValidFrom(i) ==
    IF i >= Len(chain) THEN TRUE
    ELSE LET current == chain[i + 1]
             previous == chain[i]
         IN  IF current.hash # CalculateHash(current) THEN FALSE
             ELSE IF current.previous_hash # previous.hash THEN FALSE
             ELSE IsChainValidFrom(i + 1)

\* A slip: the loop without its first test, the recomputation of the hash.
RECURSIVE LinksValidFrom(_)
LinksValidFrom(i) ==
    IF i >= Len(chain) THEN TRUE
    ELSE IF chain[i + 1].previous_hash # chain[i].hash THEN FALSE
    ELSE LinksValidFrom(i + 1)

IsChainValidLinksOnly == LinksValidFrom(1)

\* Blockchain.is_chain_valid: for i in range(1, len(self.chain))
IsChainValid == IsChainValidFrom(1)

\* ------------------------------------------------- a field changed afterwards
\* A digest that no block of the chain has.
ForgedHash == [lead |-> 5, body |-> <<>>]

\* The fields of a Block and, after "tx.", of a Transaction.
BlockFields == {"index", "timestamp", "previous_hash", "nonce", "difficulty", "miner", "hash"}
TransactionFields == {"sender_public_key", "recipient", "amount", "fee", "timestamp", "signature"}

\* The values a stored field may be changed to.
OtherValues(field, old) ==
    (CASE field \in {"index", "timestamp", "nonce", "difficulty", "fee"} -> {old + 1}
       [] field = "amount" -> {old + 200}
       [] field \in {"previous_hash", "hash"} -> {ZeroHash, ForgedHash}
       [] field = "miner" -> {None, PublicKey(1), PublicKey(2)}
       [] field \in {"sender_public_key", "recipient"} -> {PublicKey(1), PublicKey(2)}
       [] field = "signature" -> {<<PublicKey(3), <<"json", <<>> >> >>})
    \ {old}

Tampered(i, field, k) ==
    [block |-> i - 1, field |-> field, tx |-> k,
     sealed |-> chain[i].hash = CalculateHash(chain[i])]

\* One field of block i (counted from 1) is assigned another value; the
\* stored hash may also be assigned what calculate_hash() gives now.
TamperBlock(i, field) ==
    /\ tamper = NoTamper
    /\ \E v \in (OtherValues(field, chain[i][field])
                 \cup (IF field = "hash" THEN {CalculateHash(chain[i])} ELSE {}))
                \ {chain[i][field]} :
          chain' = [chain EXCEPT ![i][field] = v]
    /\ tamper' = Tampered(i, field, 0)
    /\ UNCHANGED <<tasks, mine, wallets, balance, heap, txvar, ntx, pool, held, now, last, applied>>

\* One field of the k-th Transaction of block i is assigned another value;
\* every list that holds the Transaction, and the caller's variable if it
\* does, sees the change.
TamperTransaction(i, k, field) ==
    /\ tamper = NoTamper
    /\ LET id == heap[chain[i].transactions][k].id
           changed(tx, v) == IF tx.id = id THEN [tx EXCEPT ![field] = v] ELSE tx
       IN  \E v \in OtherValues(field, heap[chain[i].transactions][k][field]) :
              /\ heap' = [l \in DOMAIN heap |->
                            [n \in DOMAIN heap[l] |-> changed(heap[l][n], v)]]
              /\ txvar' = changed(txvar, v)
    /\ tamper' = Tampered(i, "tx." \o field, k)
    /\ UNCHANGED <<tasks, mine, chain, wallets, balance, ntx, pool, held, now, last, applied>>

\* The calls of main's scenario: Alice registered, her transfers of 10 coin
\* to Bob, blocks mined by Alice.
Scenario ==
    \/ Initialize
    \/ RegisterWallet(1)
    \/ CreateTransaction(1, PublicKey(2), 400)
    \/ txvar # NoTx /\ PoolAddTransaction(txvar, 1)
    \/ PoolGetTransactions
    \/ held # None /\ AddBlock(held, {1})

NextTamper ==
    \/ tamper = NoTamper /\ Scenario
    \/ \E i \in 1..Len(chain), field \in BlockFields : TamperBlock(i, field)
    \/ \E i \in 1..Len(chain), field \in TransactionFields :
          \E k \in 1..Len(heap[chain[i].transactions]) : TamperTransaction(i, k, field)

\* The scenario, and at any one moment one stored field of one block changed.
SpecTamper == Init /\ [][NextTamper]_vars

\* ------------------------------------------- transfers of most of a balance
\* The Wallet object a Transaction was constructed with.
SenderWallet(tx) == CHOOSE w \in Wallets : PublicKey(w) = tx.sender_public_key

\* Alice, registered, mines and then transfers 30 coin to Bob, more than
\* once; every admission is asked with the transaction's own sender wallet
\* and every block is mined from the pool's list.
NextOverdraft ==
    \/ Initialize
    \/ RegisterWallet(1)
    \/ CreateTransaction(1, PublicKey(2), 1200)
    \/ txvar # NoTx /\ PoolAddTransaction(txvar, SenderWallet(txvar))
    \/ PoolGetTransactions
    \/ PoolClearTransactions
    \/ \E miner \in Miners : held = pool /\ AddBlock(held, {miner})

SpecOverdraft == Init /\ [][NextOverdraft]_vars

\* The transactions a block of the chain holds now.
BlockTransactions(b) == heap[b.transactions]

\* ---------------------------------------------------------------------- C1
\* C1: after initialize() and any add_block calls, the genesis block has
\* previous_hash "0" and no miner, every later block's previous_hash is the
\* stored hash of the block before it, and block i has index i.
C1_ChainLinkage ==
    chain # <<>> =>
        /\ chain[1].previous_hash = ZeroHash
        /\ chain[1].miner = None
        /\ \A i \in 2..Len(chain) : chain[i].previous_hash = chain[i - 1].hash
        /\ \A i \in 1..Len(chain) : chain[i].index = i - 1

\* Two blocks were added after the genesis block, the last one with a
\* transaction in it.
C1_Witness ==
    /\ Len(chain) = 3
    /\ last = Called("add_block", "ok", "None")
    /\ BlockTransactions(chain[3]) # <<>>

\* ---------------------------------------------------------------------- C2
\* C2: is_chain_valid() is true right after initialize() and right after
\* every add_block call that completes.
C2_ValidAfterBlock ==
    (last.op \in {"initialize", "add_block"} /\ last.outcome = "ok") => IsChainValid

\* ---------------------------------------------------------------------- C4
\* C4: a block is immutable once appended: in every reachable state every
\* block's stored hash is calculate_hash() of the block, and is_chain_valid()
\* is true.
C4_BlocksImmutable ==
    /\ \A i \in 1..Len(chain) : chain[i].hash = CalculateHash(chain[i])
    /\ IsChainValid

\* ---------------------------------------------------------------------- C3
\* The sum of a sequence of numbers.
RECURSIVE Sum(_)
Sum(ns) == IF ns = <<>> THEN 0 ELSE Head(ns) + Sum(Tail(ns))

Registered(key) == \E p \in DOMAIN wallets : PublicKey(wallets[p]) = key

\* Signed by the sender it names, over the fields it has now.
ValidlySigned(tx) == tx.signature = Sign(tx.sender_public_key, SignedData(tx))

\* What the claim says wallet w gains in an add_block of txs won by miner.
ClaimedDelta(w, txs, miner) ==
    LET fees == [i \in 1..Len(txs) |-> txs[i].fee]
        sent == [i \in 1..Len(txs) |->
                    IF txs[i].sender_public_key = PublicKey(w)
                    THEN txs[i].amount + txs[i].fee ELSE 0]
        received == [i \in 1..Len(txs) |->
                        IF txs[i].recipient = PublicKey(w) THEN txs[i].amount ELSE 0]
    IN  (IF PublicKey(w) = miner THEN Reward + Sum(fees) ELSE 0)
        - Sum(sent) + Sum(received)

\* The step is an add_block call that completed.
AddBlockCompleted ==
    /\ last' = Called("add_block", "ok", "None")
    /\ Len(chain') = Len(chain) + 1

\* C3: when add_block(txs, miners) completes and every transaction of txs is
\* validly signed by a registered sender and has a registered recipient, each
\* wallet's balance changes by exactly reward + the fees of txs if it is the
\* selected miner, - (amount + fee) for each transaction it sent and + amount
\* for each it received.
C3_BalanceDeltas ==
    [][(/\ AddBlockCompleted
        /\ \A i \in 1..Len(heap[held]) :
               /\ ValidlySigned(heap[held][i])
               /\ Registered(heap[held][i].sender_public_key)
               /\ Registered(heap[held][i].recipient))
       => \A w \in Wallets :
             balance'[w] = balance[w]
                           + ClaimedDelta(w, heap[held], chain'[Len(chain')].miner)]_vars

\* The spec's scenario B: W1 had 50 coin, sent 10 to W2, and W2 mined the
\* block: W1 has 39.95 coin and W2 has 60.05.
C3_Witness ==
    /\ last = Called("add_block", "ok", "None")
    /\ Len(chain) = 3
    /\ Len(BlockTransactions(chain[3])) = 1
    /\ BlockTransactions(chain[3])[1].amount = 400
    /\ chain[3].miner = PublicKey(2)
    /\ balance = <<1598, 2402, 0>>

\* ---------------------------------------------------------------------- C6
\* C6: add_block called with an empty candidate-miner list fails, and the
\* chain, the lists and every wallet balance are after the call what they
\* were before it.
C6_NoMinerNoMutation ==
    [][(held # None /\ AddBlock(held, {}))
       => /\ last'.op = "add_block"
          /\ last'.outcome # "ok"
          /\ chain' = chain
          /\ balance' = balance
          /\ wallets' = wallets
          /\ heap' = heap]_vars

\* add_block raised IndexError on a ledger that has blocks, balances and a
\* candidate transaction: it was given no miner.
C6_Witness ==
    /\ last = Called("add_block", "IndexError", "None")
    /\ Len(chain) >= 2
    /\ heap[held] # <<>>
    /\ \E w \in Wallets : balance[w] > 0

\* ---------------------------------------------------------------------- C7
\* What wallet w gains in an add_block of txs won by miner when only the
\* transactions of a registered sender count, and only a registered
\* recipient is credited.
CountedDelta(w, txs, miner) ==
    LET counts(tx) == Registered(tx.sender_public_key) /\ ValidlySigned(tx)
        counted == SelectSeq(txs, counts)
        fees == [i \in 1..Len(counted) |-> counted[i].fee]
        sent == [i \in 1..Len(counted) |->
                    IF counted[i].sender_public_key = PublicKey(w) /\ Registered(PublicKey(w))
                    THEN counted[i].amount + counted[i].fee ELSE 0]
        received == [i \in 1..Len(counted) |->
                        IF counted[i].recipient = PublicKey(w) /\ Registered(PublicKey(w))
                        THEN counted[i].amount ELSE 0]
    IN  (IF PublicKey(w) = miner THEN Reward + Sum(fees) ELSE 0)
        - Sum(sent) + Sum(received)

\* C7: add_block given a candidate transaction whose sender is not in the
\* registry (and a miner) completes, appends a block that holds the
\* candidate list, and that transaction adds nothing to the fees and changes
\* no balance.
C7_UnresolvedSenderSkipped ==
    [][\A ms \in (SUBSET Miners) \ {{}} :
         (/\ held # None
          /\ chain # <<>>
          /\ \E i \in 1..Len(heap[held]) : ~Registered(heap[held][i].sender_public_key)
          /\ AddBlock(held, ms))
         => /\ AddBlockCompleted
            /\ chain'[Len(chain')].transactions = held
            /\ heap' = heap
            /\ \A w \in Wallets :
                  balance'[w] = balance[w]
                                + CountedDelta(w, heap[held], chain'[Len(chain')].miner)]_vars

\* ---------------------------------------------------------------------- C8
\* C8: Pool admission appends the transaction to the end of the pool if and
\* only if amount > 0, sender != recipient and the claimed sender account's
\* balance >= amount + fee, and leaves the pool unchanged otherwise; whether
\* the signature verifies under the claimed account plays no part.
C8_AdmissionRule ==
    [][\A w \in Wallets :
         (txvar # NoTx /\ PoolAddTransaction(txvar, w))
         => LET admitted == /\ txvar.amount > 0
                            /\ txvar.sender_public_key # txvar.recipient
                            /\ balance[w] >= txvar.amount + txvar.fee
            IN  /\ pool' = pool
                /\ heap' = [heap EXCEPT ![pool] = IF admitted THEN Append(@, txvar) ELSE @]]_vars

\* The pool holds one transaction, admitted since the last block on another
\* wallet's balance (its own sender could not pay it), and the last call
\* was the admission of a transaction of -5 coin, which the pool does not
\* hold.
C8_Witness ==
    /\ last.op = "add_transaction"
    /\ txvar # NoTx
    /\ txvar.amount = -200
    /\ Len(heap[pool]) = 1
    /\ heap[pool][1].id # txvar.id
    /\ heap[pool][1].timestamp = now
    /\ balance[heap[pool][1].sender_public_key] < heap[pool][1].amount + heap[pool][1].fee

\* ---------------------------------------------------------------------- C9
\* bool(value) of a returned value: None and False are false.
Truthy(ret) == ret \notin {"None", "False"}

\* C9: Pool admission returns a value that is true exactly when the
\* transaction was appended and false when it was rejected, and it does not
\* raise.
C9_ReturnsAdmitted ==
    [][\A w \in Wallets :
         (txvar # NoTx /\ PoolAddTransaction(txvar, w))
         => /\ last'.outcome = "ok"
            /\ Truthy(last'.ret) <=> heap'[pool] # heap[pool]]_vars

\* ---------------------------------------------------------------------- C5
\* The fields that calculate_hash() serialises, and the stored hash.
HashedFields ==
    {"index", "timestamp", "previous_hash", "nonce", "miner", "hash",
     "tx.sender_public_key", "tx.recipient", "tx.amount", "tx.fee", "tx.timestamp"}

BlocksHolding(id) ==
    {i \in 1..Len(chain) :
        \E k \in 1..Len(BlockTransactions(chain[i])) : BlockTransactions(chain[i])[k].id = id}

\* The number of times add_block applied the balance update of Transaction id.
TimesApplied(id) == Cardinality({k \in 1..Len(applied) : applied[k] = id})

\* C10: a transaction is consumed once: each Transaction is in at most one
\* block of the chain and its effect on the balances is applied at most once.
C10_ConsumedOnce ==
    \A id \in 1..ntx :
        /\ Cardinality(BlocksHolding(id)) <= 1
        /\ TimesApplied(id) <= 1

\* --------------------------------------------------------------------- C11
\* C11: every block in the chain is sealed: its stored hash is
\* calculate_hash() of the block at its stored nonce (calculate_hash is a
\* function of the block's fields, so a repeated call gives the same digest),
\* and the stored hash starts with at least difficulty '0' characters, the
\* Blockchain's difficulty.
C11_EveryBlockSealed ==
    \A i \in 1..Len(chain) :
        /\ chain[i].hash = CalculateHash(chain[i])
        /\ chain[i].difficulty = Difficulty
        /\ StartsWithPrefix(chain[i].hash, Difficulty)

\* --------------------------------------------------------------------- C13
\* The Transaction objects the program holds: the caller's and the lists'.
Transactions ==
    (IF txvar = NoTx THEN {} ELSE {txvar})
    \cup UNION {{heap[l][k] : k \in 1..Len(heap[l])} : l \in 1..Len(heap)}

\* C13: for every Transaction as constructed, is_valid with the wallet that
\* signed it is true, and is_valid with a wallet that holds another key is
\* false.
C13_SignerOnlyVerifies ==
    \A tx \in Transactions : \A w \in Wallets :
        IsValid(tx, w) <=> PublicKey(w) = tx.sender_public_key

\* The caller has just constructed a Transaction of wallet 1: it verifies
\* under wallet 1 and not under wallet 2.
C13_Witness ==
    /\ last.op = "Transaction"
    /\ txvar.sender_public_key = PublicKey(1)
    /\ IsValid(txvar, 1)
    /\ ~IsValid(txvar, 2)

\* --------------------------------------------------------------------- C14
\* C14: get_transactions does not change the pool, and the sequence it
\* returned is a snapshot: while the caller holds it, no later call changes
\* its contents.
C14_ReadIsSnapshot ==
    [][/\ PoolGetTransactions => (pool' = pool /\ heap' = heap)
       /\ (held # None /\ held' = held) => heap'[held] = heap[held]]_vars

\* --------------------------------------------------------------------- C18
\* The amounts of the transactions of txs that count (validly signed by
\* their sender) and whose recipient is not in the registry.
Burned(txs) ==
    Sum([i \in 1..Len(txs) |->
            IF ValidlySigned(txs[i]) /\ ~Registered(txs[i].recipient)
            THEN txs[i].amount ELSE 0])

\* C18: when add_block completes, the sum of all wallet balances is the sum
\* before plus reward, minus the amount of every valid transaction whose
\* recipient is not registered.
C18_SupplyAccounting ==
    [][AddBlockCompleted
       => Sum(balance') = Sum(balance) + Reward - Burned(heap[held])]_vars

\* Two blocks were mined and the second held a transfer of 10 coin to a
\* wallet outside the registry: the supply is 100 - 10 coin.
C18_Witness ==
    /\ last = Called("add_block", "ok", "None")
    /\ Len(chain) = 3
    /\ Len(BlockTransactions(chain[3])) = 1
    /\ ~Registered(BlockTransactions(chain[3])[1].recipient)
    /\ Sum(balance) = 2 * Reward - 400
\* --------------------------------------------------------------------- C19
\* C19: no wallet balance ever becomes negative, when every admission is
\* asked with the transaction's real sender wallet and every block is mined
\* from the pool's contents.
C19_NoNegativeBalance == \A w \in Wallets : balance[w] >= 0
\* --------------------------------------------------------------------- C15
\* The fields of a Transaction that to_dict serialises and the signature
\* covers.
PayloadFields == {"sender_public_key", "recipient", "amount", "fee", "timestamp"}

\* One payload field of the k-th Transaction of the pool's list is assigned
\* another value, the signature left as it was; every holder of the object
\* sees the change.  Only one Transaction at a time is other than signed.
AlterPooled(k, field) ==
    /\ \A tx \in Transactions : ValidlySigned(tx)
    /\ LET id == heap[pool][k].id
           changed(tx, v) == IF tx.id = id THEN [tx EXCEPT ![field] = v] ELSE tx
       IN  \E v \in OtherValues(field, heap[pool][k][field]) :
              /\ heap' = [l \in DOMAIN heap |->
                            [n \in DOMAIN heap[l] |-> changed(heap[l][n], v)]]
              /\ txvar' = changed(txvar, v)
    /\ last' = Called("setattr", "ok", "None")
    /\ UNCHANGED <<chain, wallets, balance, ntx, pool, held, now, applied, tamper,
                   tasks, mine>>

\* Alice's transfers of 10 coin to Bob, one of them changed while it waits
\* in the pool, and the blocks mined from the list the caller holds.
NextAltered ==
    \/ Initialize
    \/ \E w \in Registrable : RegisterWallet(w)
    \/ CreateTransaction(1, PublicKey(2), 400)
    \/ txvar # NoTx /\ PoolAddTransaction(txvar, 1)
    \/ PoolGetTransactions
    \/ \E k \in 1..Len(heap[pool]), field \in PayloadFields : AlterPooled(k, field)
    \/ \E miner \in Miners : held # None /\ AddBlock(held, {miner})

SpecAltered == Init /\ [][NextAltered]_vars

\* C15: add_block given a list that holds a transaction whose signed payload
\* was changed after signing, every sender of the list being registered,
\* completes, appends a block that holds the list, and the changed
\* transaction adds nothing to the fees and changes no balance, while the
\* other transactions are applied.
C15_AlteredSkipped ==
    [][\A miner \in Miners :
         (/\ held # None
          /\ chain # <<>>
          /\ \A i \in 1..Len(heap[held]) : Registered(heap[held][i].sender_public_key)
          /\ \E i \in 1..Len(heap[held]) : ~ValidlySigned(heap[held][i])
          /\ AddBlock(held, {miner}))
         => /\ AddBlockCompleted
            /\ chain'[Len(chain')].transactions = held
            /\ heap' = heap
            /\ \A w \in Wallets :
                  balance'[w] = balance[w] + CountedDelta(w, heap[held], PublicKey(miner))]_vars

\* Bob mined a block of two of Alice's transfers, one of them changed after
\* signing: Alice, who had 50 coin, paid one transfer and its fee.
C15_Witness ==
    /\ last = Called("add_block", "ok", "None")
    /\ Len(chain) = 3
    /\ chain[3].miner = PublicKey(2)
    /\ Len(BlockTransactions(chain[3])) = 2
    /\ \E i, j \in 1..2 : /\ ~ValidlySigned(BlockTransactions(chain[3])[i])
                          /\ ValidlySigned(BlockTransactions(chain[3])[j])
    /\ balance[1] = Reward - 402
\* --------------------------------------------------------------------- C16
\* The followed block with nonce n has a hash that starts with difficulty
\* '0' characters.
Wins(n) ==
    Sha256(BlockData([mine.block EXCEPT !.nonce = n],
                     Dicts(heap[mine.block.transactions]))).lead >= mine.block.difficulty

\* C16: sealing terminates whenever some nonce >= 0 gives the block a hash
\* that starts with difficulty '0' characters: the loop, once entered,
\* eventually returns; with difficulty 0 it returns at nonce 0.
C16_SealingTerminates ==
    /\ (mine.pc = "loop" /\ \E n \in 0..MaxNonce : Wins(n)) ~> (mine.pc = "returned")
    /\ [](mine.pc = "returned" /\ mine.block.difficulty = 0 => mine.block.nonce = 0)

\* mine_block returned on a block of difficulty 4 after more than three
\* nonces failed.
C16_Witness ==
    /\ mine.pc = "returned"
    /\ mine.block.difficulty = Difficulty
    /\ mine.block.nonce > 3

\* --------------------------------------------------------------------- C17
\* C17: mine_block tries the nonces 0, 1, 2, ... in order and returns at the
\* least nonce whose hash starts with the prefix; it returns that hash and
\* leaves the block's nonce and hash at that state, which is what the loop
\* as a whole computes; and once it has returned, a later call changes
\* neither nonce nor hash.
C17_LeastNonceSealed ==
    /\ [](mine.pc \in {"loop", "returned"} /\ mine.calls = 1
          => mine.tried = [i \in 1..Len(mine.tried) |-> i - 1])
    /\ [](mine.pc = "returned"
          => /\ Wins(mine.block.nonce)
             /\ \A n \in 0..(mine.block.nonce - 1) : ~Wins(n)
             /\ mine.block.hash = CalculateHash(mine.block)
             /\ mine.ret = mine.block.hash
             /\ mine.block = MineBlock([mine.block EXCEPT !.nonce = 0, !.hash = ZeroHash],
                                       Dicts(heap[mine.block.transactions])))
    /\ [][mine.pc = "returned" \/ mine.calls = 2
          => /\ mine'.block.nonce = mine.block.nonce
             /\ mine'.block.hash = mine.block.hash]_vars

\* mine_block was called again on a block it had sealed at a nonce above 0,
\* and has returned.
C17_Witness ==
    /\ mine.pc = "returned"
    /\ mine.calls = 2
    /\ mine.block.nonce > 0
    /\ mine.tried = <<mine.block.nonce>>
\* --------------------------------------------------------------------- C12
\* A slip: mine_block gives the event loop a turn before it starts.
MineBlockSuspendsFirst == TRUE

\* Whether "await new_block.mine_block()" suspends add_block: mine_block is
\* a coroutine with no await, no async for and no async with in its body, so
\* awaiting it runs its loop to the return without a turn of the event loop.
MineBlockSuspends == FALSE

\* asyncio.create_task(blockchain.add_block(held, miner_wallets)): the call
\* is scheduled, and none of its body has run.  born is history: the length
\* of the chain when the task was created.
CreateTask(miner_wallets) ==
    /\ Len(tasks) < MaxTasks
    /\ held # None
    /\ tasks' = Append(tasks, [pc |-> "ready", transactions |-> held,
                               miner_wallets |-> miner_wallets, born |-> Len(chain)])
    /\ last' = Called("create_task", "ok", "Task")
    /\ UNCHANGED <<chain, wallets, balance, heap, txvar, ntx, pool, held, now,
                   applied, tamper, mine>>

\* The task's add_block raises: lines 132-134, before anything is written.
TaskRaises(t, exception) ==
    /\ tasks' = [tasks EXCEPT ![t].pc = "raised"]
    /\ last' = Called("add_block", exception, "None")
    /\ UNCHANGED <<chain, wallets, balance, heap, txvar, ntx, pool, held, now,
                   applied, tamper, mine>>

\* Lines 136-149 of the task's add_block: the block is mined and appended
\* and the balances are written, with no await between them.
TaskCompletes(t, new_block, miner, total_fees) ==
    LET txs == heap[tasks[t].transactions]
    IN  /\ chain' = Append(chain, MineBlock(new_block, Dicts(txs)))
        /\ balance' = UpdateAll(txs, [balance EXCEPT ![miner] = @ + MinerCredit(total_fees)])
        /\ now' = now + 1
        /\ last' = Called("add_block", "ok", "None")
        /\ applied' = applied \o AppliedIds(txs)
        /\ tasks' = [tasks EXCEPT ![t].pc = "done"]
        /\ UNCHANGED <<wallets, heap, txvar, ntx, pool, held, tamper, mine>>

\* The event loop runs task t up to its next suspension, or to its end.
RunTask(t) ==
    /\ tasks[t].pc \in {"ready", "suspended"}
    /\ Len(chain) < MaxChain
    /\ IF tasks[t].pc = "suspended"
       THEN TaskCompletes(t, tasks[t].new_block, tasks[t].miner, tasks[t].total_fees)
       ELSE IF chain = <<>>
       THEN TaskRaises(t, "IndexError")
       ELSE \E miner \in RandomChoice(tasks[t].miner_wallets) :
            IF miner = None
            THEN TaskRaises(t, "IndexError")
            ELSE IF RaisesAttributeError(heap[tasks[t].transactions])
            THEN TaskRaises(t, "AttributeError")
            ELSE LET total_fees == TotalFees(heap[tasks[t].transactions])
                     new_block == NewBlock(NewBlockIndex, tasks[t].transactions,
                                           PreviousHash, Difficulty, PublicKey(miner), now)
                 IN  IF MineBlockSuspends
                     THEN /\ tasks' = [tasks EXCEPT ![t] =
                                         [pc |-> "suspended",
                                          transactions |-> tasks[t].transactions,
                                          miner_wallets |-> tasks[t].miner_wallets,
                                          born |-> tasks[t].born,
                                          miner |-> miner, total_fees |-> total_fees,
                                          new_block |-> new_block]]
                          /\ UNCHANGED <<chain, wallets, balance, heap, txvar, ntx, pool,
                                         held, now, last, applied, tamper, mine>>
                     ELSE TaskCompletes(t, new_block, miner, total_fees)

\* main's wallets registered, Alice's transfers of 10 coin to Bob, and the
\* blocks added by add_block calls started as tasks once both are registered.
NextTasks ==
    \/ Initialize
    \/ \E w \in Registrable : RegisterWallet(w)
    \/ CreateTransaction(1, PublicKey(2), 400)
    \/ txvar # NoTx /\ PoolAddTransaction(txvar, 1)
    \/ PoolGetTransactions
    \/ \E ms \in (SUBSET Miners) \ {{}} :
          (\A w \in Registrable : Registered(PublicKey(w))) /\ CreateTask(ms)
    \/ \E t \in 1..Len(tasks) : RunTask(t)

SpecTasks == Init /\ [][NextTasks]_vars

\* C12: add_block is atomic for tasks of one event loop: in every state a
\* task can see, every block appended has had its reward and transfers
\* written to the balances (the registered wallets hold the reward of every
\* block after the first, transfers and fees only moving it), and the
\* blocks have consecutive indices, each with the stored hash of the block
\* before it as previous_hash.
C12_AddBlockAtomic ==
    /\ chain # <<>> => Sum(balance) = Reward * (Len(chain) - 1)
    /\ Len(chain) <= 1 + Cardinality({t \in 1..Len(tasks) : tasks[t].pc = "done"})
    /\ \A i \in 2..Len(chain) :
          /\ chain[i].index = chain[i - 1].index + 1
          /\ chain[i].previous_hash = chain[i - 1].hash

\* Two add_block calls were started as tasks before either ran, both have
\* completed, and the second block holds a transfer.
C12_Witness ==
    /\ Len(tasks) = 2
    /\ tasks[1].pc = "done"
    /\ tasks[2].pc = "done"
    /\ tasks[1].born = 1
    /\ tasks[2].born = 1
    /\ Len(chain) = 3
    /\ BlockTransactions(chain[3]) # <<>>
    /\ balance[2] > 0

=============================================================================
